---- MODULE Spec2Model ----
(***************************************************************************)
(* Model of excalibur-sdf-text (src/main.ts).                              *)
(*                                                                         *)
(*  - Spec           : the batch renderer SDFTextRenderer (draw / flush).  *)
(*  - SpecRun        : runs of draws that emit one quad each.              *)
(*  - SpecEmit       : one draw with any pen origin and size on a batch    *)
(*                     prepared by earlier calls.                          *)
(*  - SpecInitialize : initialize() with its shader probe, then calls.     *)
(*  - SpecAtlas      : the atlas packing loop of the SDFFont constructor.  *)
(*  - SpecSizing     : the sizing at the start of the SDFFont constructor. *)
(***************************************************************************)
EXTENDS Integers, Sequences, FiniteSets, TLC

\* ------------------------------------------------------------------------
\* Bounds of the model
\* ------------------------------------------------------------------------
MaxCapacity == 2
MaxTextureUnits == 2
MaxTextLen == 2
MaxCalls == 2
MaxAlphabet == 3
MaxGlyphDim == 3
MaxCellSize == 2

\* ------------------------------------------------------------------------
\* Renderer inputs: fonts and texts
\* ------------------------------------------------------------------------
Chars == {"a", "b"}

FontIds == {"F1", "F2", "F3"}

\* SDFFont._fontSize (options.fontSize ?? 16)
FontSizeOf(f) == IF f = "F3" THEN 32 ELSE 16

\* SDFFont.glyphs: the code points the rasterizer was run for
GlyphsOf(f) == IF f = "F3" THEN {"a"} ELSE {"a", "b"}

\* SDFFont.glyphAtlasLocation: the code points the packing loop placed
\* (F2 is a font whose packing loop ended before "b" was placed)
LocationsOf(f) == IF f = "F1" THEN {"a", "b"} ELSE {"a"}

\* SDFFont.atlasCanvas, and the texture the texture loader keeps for it
\* (one texture per image)
AtlasOf(f) == f

\* get gamma(): 2 * 1.4142 / fontSize, kept as an exact fraction
Gamma(fs) == [num |-> 28284, den |-> 10000 * fs]
GammaOf(f) == Gamma(FontSizeOf(f))

\* get halo(): .75, in hundredths
HaloOf(f) == 75

\* the font size of the initial _sdfGamma = 2 * 1.4142 / 16
DefaultFontSize == 16

\* the module-scope `const fontSize = 100` that the SDFFont constructor reads
ModuleFontSize == 100

CeilDiv(a, b) == (a + b - 1) \div b

\* SDFFont.buffer: Math.ceil(fontSize / 8) of the constructor
BufferOf(f) == CeilDiv(ModuleFontSize, 8)

\* SDFFont.glyphs.get(char): the bitmap size and advance of a glyph
GlyphOf(f, c) ==
    IF c = "a" THEN [width |-> 3, height |-> 4, glyphAdvance |-> 2]
    ELSE [width |-> 2, height |-> 5, glyphAdvance |-> 3]

\* SDFFont.glyphAtlasLocation.get(char)
AtlasLocationOf(f, c) == IF c = "a" THEN [x |-> 0, y |-> 0] ELSE [x |-> 3, y |-> 0]

\* width and height of the canvas font.atlasCanvas
AtlasWidthOf(image) == IF image = "F3" THEN 16 ELSE 8
AtlasHeightOf(image) == IF image = "F3" THEN 16 ELSE 8

\* pen origins and text sizes passed to draw()
Origin == [x |-> 0, y |-> 0]
Positions == {Origin, [x |-> 3, y |-> 5]}
Sizes == {16, 24}

RECURSIVE SeqsUpTo(_, _)
SeqsUpTo(S, n) ==
    IF n = 0 THEN {<< >>}
    ELSE LET shorter == SeqsUpTo(S, n - 1)
         IN shorter \cup {Append(t, c) : t \in {u \in shorter : Len(u) = n - 1}, c \in S}

Texts == SeqsUpTo(Chars, MaxTextLen)

Undefined == "undefined"

\* ------------------------------------------------------------------------
\* Renderer state
\* ------------------------------------------------------------------------
VARIABLES
    maxImages,        \* _maxImages
    maxTextures,      \* _maxTextures
    imageCount,       \* _imageCount
    vertexIndex,      \* _vertexIndex
    textures,         \* _textures (ordered list)
    textureIndex,     \* _textureIndex
    textureToIndex,   \* _textureToIndex
    images,           \* _images
    sdfGamma,         \* _sdfGamma
    sdfHalo,          \* _sdfHalo
    vertexBuffer,     \* _layout.vertexBuffer.bufferData, one entry per quad
    imageToWidth,     \* _imageToWidth
    imageToHeight,    \* _imageToHeight
    submissions,      \* GPU submissions issued by the most recent call
    gpuQuads,         \* quads handed to gl.drawElements so far
    drawnPresent,     \* characters drawn so far that the font has a glyph and a location for
    calls,            \* number of draw / flush calls so far
    lastOp,           \* the most recent call
    lastFont,         \* the font argument of the most recent call, if it was a draw
    gpuDrawCalls,     \* gl.drawElements calls so far
    lastText,         \* the text, pos and size arguments of the most recent draw
    lastPos,
    lastSize,
    emitted,          \* the quads the most recent draw wrote, in order
    pen,              \* the local `pen` of the most recent draw when it returned
    skippedAfterQuad, \* some draw so far skipped a character after it had written a quad
    \* initialize()
    hardwareLimit,    \* gl.getParameter(gl.MAX_TEXTURE_IMAGE_UNITS)
    compilerLimit,    \* the longest if / else-if chain the shader compiler accepts
    numIfs,           \* numIfs of getMaxShaderComplexity
    pcInit,           \* the position of initialize()
    texturePicker,    \* the if / else-if chain put in place of %%texture_picker%%
    \* SDFFont constructor
    alphabet, cellSize, glyphs, glyphAtlasLocation, atlas,
    nextCodePoint, x, y, currentSize, maxHeight, pcFont,
    ownFontSize,      \* SDFFont._fontSize
    buffer,           \* SDFFont._buffer
    radius,           \* SDFFont._radius
    placements        \* the putImageData calls of the packing loop so far, in order

rendererVars == <<maxImages, maxTextures, imageCount, vertexIndex, textures,
                  textureIndex, textureToIndex, images, sdfGamma, sdfHalo,
                  vertexBuffer, submissions, gpuQuads, drawnPresent, calls, lastOp,
                  lastFont, gpuDrawCalls, imageToWidth, imageToHeight,
                  lastText, lastPos, lastSize, emitted, pen, skippedAfterQuad,
                  hardwareLimit, compilerLimit, numIfs, pcInit, texturePicker>>

sizingVars == <<ownFontSize, buffer, radius>>

fontVars == <<alphabet, cellSize, glyphs, glyphAtlasLocation, atlas,
              nextCodePoint, x, y, currentSize, maxHeight, pcFont,
              sizingVars, placements>>

vars == <<rendererVars, fontVars>>

EmptyMap == [t \in {} |-> 0]

\* The renderer's fields after initialize(), for a vertex buffer of c quads
\* and u texture units
InitialState(c, u) ==
    [maxImages |-> c, maxTextures |-> u,
     imageCount |-> 0, vertexIndex |-> 0,
     textures |-> << >>, textureIndex |-> 0,
     textureToIndex |-> EmptyMap, images |-> {},
     sdfGamma |-> Gamma(DefaultFontSize), sdfHalo |-> 75,
     vertexBuffer |-> [k \in 1 .. c |-> Undefined],
     imageToWidth |-> EmptyMap, imageToHeight |-> EmptyMap,
     log |-> << >>, emitted |-> << >>, pen |-> Origin]

\* The renderer's fields as one record, threaded through the methods below
State ==
    [maxImages |-> maxImages, maxTextures |-> maxTextures,
     imageCount |-> imageCount, vertexIndex |-> vertexIndex,
     textures |-> textures, textureIndex |-> textureIndex,
     textureToIndex |-> textureToIndex, images |-> images,
     sdfGamma |-> sdfGamma, sdfHalo |-> sdfHalo,
     vertexBuffer |-> vertexBuffer,
     imageToWidth |-> imageToWidth, imageToHeight |-> imageToHeight,
     log |-> << >>, emitted |-> << >>, pen |-> Origin]

\* _isFull() comparing with > where the code compares with >=
IsFullOffByOne(s) ==
    \/ s.imageCount > s.maxImages
    \/ Len(s.textures) >= s.maxTextures

\* _isFull()
IsFull(s) ==
    \/ s.imageCount >= s.maxImages
    \/ Len(s.textures) >= s.maxTextures

\* _bindTextures(): the texture bound to unit i, this._textures[i] || this._textures[0]
BoundUnit(s, i) ==
    IF i < Len(s.textures) THEN s.textures[i + 1]
    ELSE IF Len(s.textures) > 0 THEN s.textures[1]
    ELSE Undefined

BindTextures(s) == [i \in 0 .. (s.maxTextures - 1) |-> BoundUnit(s, i)]

\* What one gl.drawElements call of flush() hands to the GPU
Submission(s) ==
    [quads    |-> [k \in 1 .. s.imageCount |->
                      IF k <= Len(s.vertexBuffer) THEN s.vertexBuffer[k] ELSE Undefined],
     indices  |-> s.imageCount * 6,
     textures |-> s.textures,
     units    |-> BindTextures(s),
     gamma    |-> s.sdfGamma,
     halo     |-> s.sdfHalo]

\* flush() resetting the batch before it issues the draw call
FlushResetFirst(s) ==
    IF s.imageCount = 0 THEN s
    ELSE LET r == [s EXCEPT !.imageCount = 0,
                            !.vertexIndex = 0,
                            !.textures = << >>,
                            !.textureIndex = 0,
                            !.textureToIndex = EmptyMap,
                            !.images = {},
                            !.imageToWidth = EmptyMap,
                            !.imageToHeight = EmptyMap]
         IN [r EXCEPT !.log = Append(@, Submission(r))]

\* flush() also putting the pen of the running draw back to the origin
FlushResetsPen(s) ==
    IF s.imageCount = 0 THEN s
    ELSE [s EXCEPT !.log = Append(@, Submission(s)),
                   !.imageCount = 0,
                   !.vertexIndex = 0,
                   !.textures = << >>,
                   !.textureIndex = 0,
                   !.textureToIndex = EmptyMap,
                   !.images = {},
                   !.imageToWidth = EmptyMap,
                   !.imageToHeight = EmptyMap,
                   !.pen = Origin]

\* flush()
Flush(s) ==
    IF s.imageCount = 0 THEN s
    ELSE [s EXCEPT !.log = Append(@, Submission(s)),
                   !.imageCount = 0,
                   !.vertexIndex = 0,
                   !.textures = << >>,
                   !.textureIndex = 0,
                   !.textureToIndex = EmptyMap,
                   !.images = {},
                   !.imageToWidth = EmptyMap,
                   !.imageToHeight = EmptyMap]

InSeq(e, q) == \E i \in 1 .. Len(q) : q[i] = e

\* _addImageAsTexture(image) setting the slot without advancing _textureIndex
AddImageNoIndexAdvance(s, image) ==
    IF image \in s.images THEN s
    ELSE LET texture == image
         IN IF ~InSeq(texture, s.textures)
            THEN [s EXCEPT !.textures = Append(@, texture),
                           !.textureToIndex =
                               [t \in (DOMAIN @) \cup {texture} |->
                                   IF t = texture THEN s.textureIndex ELSE @[t]],
                           !.images = @ \cup {image}]
            ELSE s

\* _addImageAsTexture(image)
AddImageAsTexture(s, image) ==
    IF image \in s.images THEN s
    ELSE LET texture == image
         IN IF ~InSeq(texture, s.textures)
            THEN [s EXCEPT !.textures = Append(@, texture),
                           !.textureToIndex =
                               [t \in (DOMAIN @) \cup {texture} |->
                                   IF t = texture THEN s.textureIndex ELSE @[t]],
                           !.textureIndex = @ + 1,
                           !.images = @ \cup {image}]
            ELSE s

\* _getTextureIdForImage(image)
GetTextureIdForImage(s, image) ==
    IF image \in DOMAIN s.textureToIndex THEN s.textureToIndex[image] ELSE -1

\* _getImageWidth(image) / _getImageHeight(image): the value returned
ImageWidth(s, image) ==
    IF image \in DOMAIN s.imageToWidth THEN s.imageToWidth[image] ELSE AtlasWidthOf(image)

ImageHeight(s, image) ==
    IF image \in DOMAIN s.imageToHeight THEN s.imageToHeight[image] ELSE AtlasHeightOf(image)

\* _getImageWidth(image) and _getImageHeight(image): the caches they fill
CacheImageSize(s, image) ==
    [s EXCEPT !.imageToWidth = @ @@ (image :> AtlasWidthOf(image)),
              !.imageToHeight = @ @@ (image :> AtlasHeightOf(image))]

\* The values draw() computes once, before its loop over the characters
DrawLocals(s, font, size) ==
    [font        |-> font,
     size        |-> size,
     imageWidth  |-> ImageWidth(s, AtlasOf(font)),
     imageHeight |-> ImageHeight(s, AtlasOf(font)),
     textureId   |-> GetTextureIdForImage(s, AtlasOf(font))]

\* `let pen = pos.clone()`.  Screen coordinates are kept exact: every
\* coordinate is stored multiplied by 2 * font.fontSize, the denominator of
\* scale = size / font.fontSize and of baseline = font.fontSize / 2 + buffer.
PenAt(font, pos) ==
    [x |-> 2 * FontSizeOf(font) * pos.x, y |-> 2 * FontSizeOf(font) * pos.y]

\* The four vertices the loop body of draw() writes for one glyph (the
\* current transform is the identity): corner positions and atlas UVs
Quad(d, char, p) ==
    LET glyph == GlyphOf(d.font, char)
        glyphPos == AtlasLocationOf(d.font, char)
        fs == FontSizeOf(d.font)
        left == p.x
        top == p.y - (2 * glyph.height - (fs + 2 * BufferOf(d.font))) * d.size
        right == left + 2 * glyph.width * d.size
        bottom == top + 2 * glyph.height * d.size
    IN [font |-> d.font, char |-> char, textureId |-> d.textureId,
        pos |-> [left |-> left, top |-> top, right |-> right, bottom |-> bottom],
        uv |-> [x0 |-> <<glyphPos.x, d.imageWidth>>,
                y0 |-> <<glyphPos.y, d.imageHeight>>,
                x1 |-> <<glyphPos.x + glyph.width, d.imageWidth>>,
                y1 |-> <<glyphPos.y + glyph.height, d.imageHeight>>]]

\* vertexBuffer[this._vertexIndex++] = ... (36 times); a write past the end
\* of the typed array is ignored
WriteQuad(s, q) ==
    LET slot == (s.vertexIndex \div 36) + 1
    IN [s EXCEPT !.vertexBuffer =
                     IF slot <= Len(@) THEN [@ EXCEPT ![slot] = q] ELSE @,
                 !.vertexIndex = @ + 36]

\* The loop body of draw() after the glyph lookup succeeded:
\* this._imageCount++, the geometry, pen.x += glyphAdvance * scale, the writes
EmitQuad(s, d, char) ==
    LET q == Quad(d, char, s.pen)
        s1 == WriteQuad([s EXCEPT !.imageCount = @ + 1], q)
    IN [s1 EXCEPT !.pen.x = @ + 2 * GlyphOf(d.font, char).glyphAdvance * d.size,
                  !.emitted = Append(@, q)]

\* The loop body of draw() skipping the character it flushed for
DrawCharDropOnFull(s, d, char) ==
    IF IsFull(s) THEN Flush(s)
    ELSE IF char \notin GlyphsOf(d.font) \/ char \notin LocationsOf(d.font)
         THEN s
         ELSE EmitQuad(s, d, char)

\* The loop body of draw() skipping only the characters without a glyph
DrawCharSkipsUnknownGlyphOnly(s, d, char) ==
    LET s1 == IF IsFull(s) THEN Flush(s) ELSE s
    IN IF char \notin GlyphsOf(d.font)
       THEN s1
       ELSE EmitQuad(s1, d, char)

\* The loop body of draw() flushing as soon as a quad fills the batch
DrawCharFlushWhenFilled(s, d, char) ==
    IF char \notin GlyphsOf(d.font) \/ char \notin LocationsOf(d.font)
    THEN s
    ELSE LET s1 == EmitQuad(s, d, char)
         IN IF IsFull(s1) THEN Flush(s1) ELSE s1

\* One iteration of `for (const char of text)` in draw()
DrawChar(s, d, char) ==
    LET s1 == IF IsFull(s) THEN Flush(s) ELSE s
    IN IF char \notin GlyphsOf(d.font) \/ char \notin LocationsOf(d.font)
       THEN s1
       ELSE EmitQuad(s1, d, char)

RECURSIVE DrawChars(_, _, _)
DrawChars(s, d, text) ==
    IF text = << >> THEN s
    ELSE DrawChars(DrawChar(s, d, Head(text)), d, Tail(text))

\* draw() adopting the font's gamma / halo without flushing the pending quads
DrawNoParamFlush(s, font, text, pos, size) ==
    LET s1 == IF IsFull(s) THEN Flush(s) ELSE s
        s2 == [s1 EXCEPT !.sdfGamma = GammaOf(font), !.sdfHalo = HaloOf(font)]
        s3 == AddImageAsTexture(s2, AtlasOf(font))
        d == DrawLocals(s3, font, size)
        s4 == [CacheImageSize(s3, AtlasOf(font)) EXCEPT !.pen = PenAt(font, pos)]
    IN DrawChars(s4, d, text)

\* draw() without the _isFull() check at its start
DrawNoFullCheck(s, font, text, pos, size) ==
    LET s2 == IF s.sdfGamma # GammaOf(font) \/ s.sdfHalo # HaloOf(font)
              THEN [Flush(s) EXCEPT !.sdfGamma = GammaOf(font),
                                    !.sdfHalo = HaloOf(font)]
              ELSE s
        s3 == AddImageAsTexture(s2, AtlasOf(font))
        d == DrawLocals(s3, font, size)
        s4 == [CacheImageSize(s3, AtlasOf(font)) EXCEPT !.pen = PenAt(font, pos)]
    IN DrawChars(s4, d, text)

\* draw(font, text, pos, size, color)
Draw(s, font, text, pos, size) ==
    LET s1 == IF IsFull(s) THEN Flush(s) ELSE s
        s2 == IF s1.sdfGamma # GammaOf(font) \/ s1.sdfHalo # HaloOf(font)
              THEN [Flush(s1) EXCEPT !.sdfGamma = GammaOf(font),
                                     !.sdfHalo = HaloOf(font)]
              ELSE s1
        s3 == AddImageAsTexture(s2, AtlasOf(font))
        d == DrawLocals(s3, font, size)
        s4 == [CacheImageSize(s3, AtlasOf(font)) EXCEPT !.pen = PenAt(font, pos)]
    IN DrawChars(s4, d, text)

\* Characters of text that draw() emits a quad for
RECURSIVE PresentCount(_, _)
PresentCount(font, text) ==
    IF text = << >> THEN 0
    ELSE (IF Head(text) \in GlyphsOf(font) /\ Head(text) \in LocationsOf(font) THEN 1 ELSE 0)
         + PresentCount(font, Tail(text))

Present(font, char) == char \in GlyphsOf(font) /\ char \in LocationsOf(font)

\* text has a character draw() skips after a character it wrote a quad for
SkipsAfterQuad(font, text) ==
    \E i \in 1 .. Len(text), j \in 1 .. Len(text) :
        i < j /\ Present(font, text[i]) /\ ~Present(font, text[j])

RECURSIVE SumQuads(_)
SumQuads(log) ==
    IF log = << >> THEN 0 ELSE Len(Head(log).quads) + SumQuads(Tail(log))

FontIdle ==
    /\ alphabet = << >> /\ cellSize = 0 /\ glyphs = EmptyMap
    /\ glyphAtlasLocation = EmptyMap /\ atlas = EmptyMap
    /\ nextCodePoint = 0 /\ x = 0 /\ y = 0 /\ currentSize = 0 /\ maxHeight = 0
    /\ pcFont = "unused"
    /\ ownFontSize = 0 /\ buffer = 0 /\ radius = 0 /\ placements = << >>

\* _transformFragmentSource with every branch opened by `if`
TransformFragmentSourceAllIf(n) ==
    [i \in 1 .. n |->
        [keyword |-> "if",
         twiceThreshold |-> 2 * (i - 1) + 1,
         unit |-> i - 1]]

\* _transformFragmentSource(source, maxTextures): the branches of the texture
\* picker, `if (v_textureIndex <= i.5) { dist = texture(u_textures[i], v_uv).r; }`
\* for i = 0 and `else if ...` after it; the threshold i.5 is kept doubled
TransformFragmentSource(n) ==
    [i \in 1 .. n |->
        [keyword |-> IF i = 1 THEN "if" ELSE "else if",
         twiceThreshold |-> 2 * (i - 1) + 1,
         unit |-> i - 1]]

\* initialize() has returned, on a device whose texture unit count and
\* whose compiler's longest accepted chain both equal maxTextures
Initialized ==
    /\ hardwareLimit = maxTextures
    /\ compilerLimit = maxTextures
    /\ numIfs = maxTextures
    /\ pcInit = "ready"
    /\ texturePicker = TransformFragmentSource(maxTextures)

\* State after initialize()
Init ==
    /\ maxImages \in 1 .. MaxCapacity
    /\ maxTextures \in 1 .. MaxTextureUnits
    /\ imageCount = 0
    /\ vertexIndex = 0
    /\ textures = << >>
    /\ textureIndex = 0
    /\ textureToIndex = EmptyMap
    /\ images = {}
    /\ sdfGamma = Gamma(DefaultFontSize)
    /\ sdfHalo = 75
    /\ vertexBuffer = [k \in 1 .. maxImages |-> Undefined]
    /\ submissions = << >>
    /\ gpuQuads = 0
    /\ drawnPresent = 0
    /\ calls = 0
    /\ lastOp = "initialize"
    /\ lastFont = "none"
    /\ gpuDrawCalls = 0
    /\ imageToWidth = EmptyMap
    /\ imageToHeight = EmptyMap
    /\ lastText = << >>
    /\ lastPos = Origin
    /\ lastSize = 0
    /\ emitted = << >>
    /\ pen = Origin
    /\ skippedAfterQuad = FALSE
    /\ Initialized
    /\ FontIdle

Commit(s) ==
    /\ imageCount' = s.imageCount
    /\ vertexIndex' = s.vertexIndex
    /\ textures' = s.textures
    /\ textureIndex' = s.textureIndex
    /\ textureToIndex' = s.textureToIndex
    /\ images' = s.images
    /\ sdfGamma' = s.sdfGamma
    /\ sdfHalo' = s.sdfHalo
    /\ vertexBuffer' = s.vertexBuffer
    /\ imageToWidth' = s.imageToWidth
    /\ imageToHeight' = s.imageToHeight
    /\ emitted' = s.emitted
    /\ pen' = s.pen
    /\ submissions' = s.log
    /\ gpuQuads' = gpuQuads + SumQuads(s.log)
    /\ gpuDrawCalls' = gpuDrawCalls + Len(s.log)
    /\ calls' = calls + 1
    /\ UNCHANGED <<maxImages, maxTextures, hardwareLimit, compilerLimit, numIfs,
                   pcInit, texturePicker, fontVars>>

\* one call of draw(font, text, pos, size)
DrawOp(font, text, pos, size) ==
    /\ Commit(Draw(State, font, text, pos, size))
    /\ drawnPresent' = drawnPresent + PresentCount(font, text)
    /\ lastOp' = "draw"
    /\ lastFont' = font
    /\ lastText' = text
    /\ lastPos' = pos
    /\ lastSize' = size
    /\ skippedAfterQuad' = (skippedAfterQuad \/ SkipsAfterQuad(font, text))

DrawCall(font, text) ==
    /\ calls < MaxCalls
    /\ DrawOp(font, text, Origin, DefaultFontSize)

\* one call of flush()
FlushOp ==
    /\ Commit(Flush(State))
    /\ UNCHANGED drawnPresent
    /\ lastOp' = "flush"
    /\ lastFont' = "none"
    /\ lastText' = << >>
    /\ lastPos' = Origin
    /\ lastSize' = 0
    /\ UNCHANGED skippedAfterQuad

FlushCall ==
    /\ calls < MaxCalls
    /\ FlushOp

Next ==
    \/ \E font \in FontIds, text \in Texts : DrawCall(font, text)
    \/ FlushCall

Spec == Init /\ [][Next]_vars

\* ------------------------------------------------------------------------
\* Properties of the renderer (checked under Spec)
\* ------------------------------------------------------------------------
\* C1: before and after every draw / flush call the pending quad count
\* satisfies 0 <= quadCount <= maxQuadCapacity.
C1_QuadCountWithinCapacity ==
    /\ 0 <= imageCount
    /\ imageCount <= maxImages

\* a draw call that had to flush for capacity and ends with a full batch
C1_Witness ==
    /\ lastOp = "draw"
    /\ submissions # << >>
    /\ imageCount = maxImages
    /\ Len(textures) < maxTextures

\* C2: after a sequence of draw calls followed by a flush, the number of
\* quads handed to the GPU over all submissions equals the number of drawn
\* characters present in the font's glyph table and atlas-location table.
C2_NoGlyphDropped ==
    lastOp = "flush" => gpuQuads = drawnPresent

\* a final flush after draws that were split over several submissions
C2_Witness ==
    /\ lastOp = "flush"
    /\ submissions # << >>
    /\ gpuQuads > maxImages
    /\ gpuQuads = drawnPresent

\* C3: the number of atlas images holding a slot never exceeds maxTextures,
\* and every slot index handed out or written into a quad lies in
\* [0, maxTextures).
C3_TextureSlotBound ==
    /\ Cardinality(images) <= maxTextures
    /\ Len(textures) <= maxTextures
    /\ \A t \in DOMAIN textureToIndex : textureToIndex[t] \in 0 .. (maxTextures - 1)
    /\ \A k \in 1 .. imageCount : vertexBuffer[k].textureId \in 0 .. (maxTextures - 1)

\* C4: at every GPU submission, the texture-slot index stored in every quad
\* of the submission refers to a slot that holds an assigned atlas image.
C4_SlotsAssignedAtSubmission ==
    \A i \in 1 .. Len(submissions) :
        \A k \in 1 .. Len(submissions[i].quads) :
            submissions[i].quads[k].textureId \in 0 .. (Len(submissions[i].textures) - 1)

\* C5: every quad of one GPU submission was emitted by a font whose gamma
\* and halo equal the uniforms pushed for that submission, and the pending
\* quads all belong to fonts with the batch's current gamma / halo.
C5_OneShadingPairPerSubmission ==
    /\ \A i \in 1 .. Len(submissions) :
          \A k \in 1 .. Len(submissions[i].quads) :
              /\ GammaOf(submissions[i].quads[k].font) = submissions[i].gamma
              /\ HaloOf(submissions[i].quads[k].font) = submissions[i].halo
    /\ \A k \in 1 .. imageCount :
          /\ GammaOf(vertexBuffer[k].font) = sdfGamma
          /\ HaloOf(vertexBuffer[k].font) = sdfHalo

\* a draw with a font of another gamma flushed the pending quads of the
\* previous font and left its own quads pending
C5_Witness ==
    /\ lastOp = "draw"
    /\ imageCount > 0
    /\ \E i \in 1 .. Len(submissions) :
          /\ Len(submissions[i].quads) > 0
          /\ GammaOf(submissions[i].quads[1].font) # GammaOf(vertexBuffer[1].font)

\* hasPendingDraws()
HasPendingDraws == imageCount # 0

\* a step that is one call of flush()
FlushStep == lastOp' = "flush" /\ calls' = calls + 1

\* C11: a flush with quadCount > 0 issues exactly one indexed draw call over
\* quadCount x 6 indices, taken before the reset (the submission still sees
\* the assigned textures), and then the quad count, the vertex cursor and
\* the texture-slot assignments are reset; hasPendingDraws() is false after.
C11_FlushSubmitsOnceThenResets ==
    [][(FlushStep /\ imageCount > 0) =>
          /\ Len(submissions') = 1
          /\ submissions'[1].indices = imageCount * 6
          /\ Len(submissions'[1].quads) = imageCount
          /\ submissions'[1].textures = textures
          /\ imageCount' = 0
          /\ vertexIndex' = 0
          /\ textures' = << >>
          /\ textureIndex' = 0
          /\ textureToIndex' = EmptyMap
          /\ images' = {}
          /\ ~HasPendingDraws']_vars

\* an explicit flush of two pending quads
C11_Witness ==
    /\ lastOp = "flush"
    /\ Len(submissions) = 1
    /\ submissions[1].indices = 12
    /\ Len(submissions[1].textures) = 1
    /\ imageCount = 0

\* C12: flush called while the quad count is zero performs no GPU submission
\* and leaves the quad count, the vertex cursor and the texture-slot counter
\* at zero.
C12_EmptyFlushLeavesCountersZero ==
    [][(FlushStep /\ imageCount = 0) =>
          /\ submissions' = << >>
          /\ imageCount' = 0
          /\ vertexIndex' = 0
          /\ textureIndex' = 0]_vars

\* a step that is one call of draw()
DrawStep == lastOp' = "draw" /\ calls' = calls + 1

\* C13: when every texture slot is taken and draw is called with a font whose
\* atlas image holds no slot, all pending quads are submitted (with the slots
\* as they were) before that image gets a slot, so the pending quads of the
\* earlier fonts and the quads of the new font are in separate submissions.
C13_SlotExhaustionFlushesFirst ==
    [][(/\ DrawStep
        /\ Len(textures) >= maxTextures
        /\ AtlasOf(lastFont') \notin images
        /\ imageCount > 0) =>
          /\ Len(submissions') >= 1
          /\ submissions'[1].quads = [k \in 1 .. imageCount |-> vertexBuffer[k]]
          /\ submissions'[1].textures = textures
          /\ \A i \in 2 .. Len(submissions') :
                \A k \in 1 .. Len(submissions'[i].quads) :
                    submissions'[i].quads[k].font = lastFont'
          /\ \A k \in 1 .. imageCount' : vertexBuffer'[k].font = lastFont']_vars

\* maxTextures = 1: the second of two one-glyph draws of two fonts submitted
\* the first font's quad on its own and left its own quad pending
C13_Witness ==
    /\ lastOp = "draw"
    /\ maxTextures = 1
    /\ calls = 2
    /\ drawnPresent = 2
    /\ gpuDrawCalls = 1
    /\ Len(submissions) = 1
    /\ Len(submissions[1].quads) = 1
    /\ submissions[1].quads[1].font # lastFont
    /\ imageCount = 1
    /\ vertexBuffer[1].font = lastFont

\* C14: a draw with a font whose atlas image already holds a slot consumes no
\* new slot and never flushes on account of the texture pool (no submission
\* when neither the capacity nor a gamma / halo change calls for one).
C14_AssignedFontNeverFlushesForTextures ==
    [][(/\ DrawStep
        /\ AtlasOf(lastFont') \in images
        /\ sdfGamma = GammaOf(lastFont')
        /\ sdfHalo = HaloOf(lastFont')
        /\ imageCount + (drawnPresent' - drawnPresent) < maxImages) =>
          /\ submissions' = << >>
          /\ textures' = textures
          /\ textureIndex' = textureIndex
          /\ textureToIndex' = textureToIndex]_vars

\* C21: at every GPU submission, for every quad in it, the atlas image bound
\* to the texture unit named by the quad's slot index is the atlas image of
\* the font that emitted the quad.
C21_QuadSamplesOwnAtlas ==
    \A i \in 1 .. Len(submissions) :
        \A k \in 1 .. Len(submissions[i].quads) :
            LET q == submissions[i].quads[k]
            IN /\ q.textureId \in DOMAIN submissions[i].units
               /\ submissions[i].units[q.textureId] = AtlasOf(q.font)

\* C22: at every GPU submission, every texture unit i in [0, maxTextures) is
\* bound to a defined atlas image: the image of slot i if slot i is
\* assigned, otherwise the image of slot 0.
C22_EveryUnitBoundToDefinedImage ==
    \A i \in 1 .. Len(submissions) :
        LET sub == submissions[i]
        IN /\ DOMAIN sub.units = 0 .. (maxTextures - 1)
           /\ \A u \in DOMAIN sub.units :
                 /\ sub.units[u] # Undefined
                 /\ sub.units[u] \in {AtlasOf(f) : f \in FontIds}
                 /\ Len(sub.textures) > 0
                 /\ sub.units[u] = (IF u < Len(sub.textures) THEN sub.textures[u + 1]
                                    ELSE sub.textures[1])

\* C26: the bookkeeping is mutually consistent: the vertex cursor equals
\* 36 x quadCount and never exceeds the vertex buffer size 36 x
\* maxQuadCapacity, the slot counter equals the number of assigned textures,
\* and the texture-to-slot map is a bijection from the assigned textures
\* onto 0 .. (number assigned - 1) that matches each texture's position in
\* the ordered texture list.
C26_BookkeepingConsistent ==
    /\ vertexIndex = 36 * imageCount
    /\ vertexIndex <= 36 * maxImages
    /\ Len(vertexBuffer) = maxImages
    /\ textureIndex = Len(textures)
    /\ DOMAIN textureToIndex = {textures[i] : i \in 1 .. Len(textures)}
    /\ \A i \in 1 .. Len(textures) : textureToIndex[textures[i]] = i - 1
    /\ \A i, j \in 1 .. Len(textures) : textures[i] = textures[j] => i = j
    /\ Cardinality(images) = Len(textures)

\* two quads pending in a full vertex buffer, their font holding slot 0
C26_Witness ==
    /\ lastOp = "draw"
    /\ imageCount = 2
    /\ vertexIndex = 72
    /\ maxImages = 2
    /\ Len(textures) = 1
    /\ textureIndex = 1
    /\ textureToIndex[textures[1]] = 0

\* ------------------------------------------------------------------------
\* Runs of draw calls that emit one quad each (SpecRun)
\* ------------------------------------------------------------------------
MaxRun == 4

\* draw() called with the font of the previous draws and a text of which
\* exactly one character has a glyph and an atlas location
RunDraw(font, text) ==
    /\ calls < MaxRun
    /\ lastFont \in {"none", font}
    /\ PresentCount(font, text) = 1
    /\ DrawOp(font, text, Origin, DefaultFontSize)

NextRun == \E font \in FontIds, text \in Texts : RunDraw(font, text)

SpecRun == Init /\ [][NextRun]_vars

\* submissions and pending quads after k one-quad draws into a batch of capacity c
RunFlushes(k, c) == CeilDiv(k, c) - 1
RunPending(k, c) == k - c * RunFlushes(k, c)

\* C15 (as stated): from an empty accumulator with capacity C >= 1 and
\* maxTextures >= 2, after k draw calls each emitting one quad from the same
\* font, exactly ceil(k/C) - 1 automatic flushes have occurred and the
\* accumulator holds k - C*(ceil(k/C) - 1) pending quads.
C15_CapacityFlushCount ==
    (maxTextures >= 2 /\ calls >= 1) =>
        /\ gpuDrawCalls = RunFlushes(calls, maxImages)
        /\ imageCount = RunPending(calls, maxImages)

\* C15 (amended): the same counts hold when no draw of the run has a
\* skipped character after the character it emitted the quad for.
C15_CapacityFlushCountNoSkipAfterQuad ==
    (maxTextures >= 2 /\ calls >= 1 /\ ~skippedAfterQuad) =>
        /\ gpuDrawCalls = RunFlushes(calls, maxImages)
        /\ imageCount = RunPending(calls, maxImages)

\* capacity 2, three one-quad draws: one automatic flush, one pending quad
C15_Witness ==
    /\ maxTextures >= 2
    /\ maxImages = 2
    /\ calls = 3
    /\ ~skippedAfterQuad
    /\ gpuDrawCalls = 1
    /\ imageCount = 1

\* ------------------------------------------------------------------------
\* One draw with any pen origin and size, issued on a prepared batch (SpecEmit)
\* ------------------------------------------------------------------------
MaxPrep == 1

\* the calls that prepare the batch: draws of at most one character, flushes
PrepDraw(font, text) ==
    /\ calls < MaxPrep
    /\ Len(text) <= 1
    /\ DrawOp(font, text, Origin, DefaultFontSize)

PrepFlush ==
    /\ calls < MaxPrep
    /\ FlushOp

\* the draw whose emission is observed
EmitDraw(font, text, pos, size) ==
    /\ calls = MaxPrep
    /\ DrawOp(font, text, pos, size)

NextEmit ==
    \/ \E font \in FontIds, text \in Texts : PrepDraw(font, text)
    \/ PrepFlush
    \/ \E font \in FontIds, text \in Texts, pos \in Positions, size \in Sizes :
          EmitDraw(font, text, pos, size)

SpecEmit == Init /\ [][NextEmit]_vars

\* the characters of text that the font has a glyph and an atlas location for
PresentChars(font, text) == SelectSeq(text, LAMBDA c : Present(font, c))

\* the sum of glyphAdvance over the first n characters of text
RECURSIVE AdvanceSum(_, _, _)
AdvanceSum(font, text, n) ==
    IF n = 0 THEN 0
    ELSE AdvanceSum(font, text, n - 1) + GlyphOf(font, text[n]).glyphAdvance

\* C16: a character of the drawn text that is absent from the font's glyph
\* table (or has no atlas location) is skipped silently: draw appends no
\* quad and does not advance the pen for it, and every other character of
\* the same text is still emitted in order.
C16_MissingGlyphSkipped ==
    lastOp = "draw" =>
        LET shown == PresentChars(lastFont, lastText)
            origin == PenAt(lastFont, lastPos)
        IN /\ [i \in 1 .. Len(emitted) |-> emitted[i].char] = shown
           /\ \A i \in 1 .. Len(emitted) :
                 emitted[i].pos.left =
                     origin.x + 2 * lastSize * AdvanceSum(lastFont, shown, i - 1)
           /\ pen.x = origin.x + 2 * lastSize * AdvanceSum(lastFont, shown, Len(shown))
           /\ pen.y = origin.y
           /\ gpuQuads + imageCount = drawnPresent

\* draw(F2, "ba") away from the origin: "b" has no atlas location, "a" is
\* emitted at the pen origin
C16_Witness ==
    /\ lastOp = "draw"
    /\ lastFont = "F2"
    /\ lastText = <<"b", "a">>
    /\ lastPos # Origin
    /\ Len(emitted) = 1
    /\ emitted[1].char = "a"
    /\ emitted[1].pos.left = PenAt(lastFont, lastPos).x

\* positions and atlas UVs of the quads of one draw, in order
Geometry(quads) == [i \in 1 .. Len(quads) |-> [pos |-> quads[i].pos, uv |-> quads[i].uv]]

\* draw(font, text, pos, size) issued on the empty batch of a renderer that
\* never fills during the call
ReferenceDraw(font, text, pos, size) ==
    Draw(InitialState(MaxTextLen + 1, 2), font, text, pos, size)

\* C19: for a fixed font, text, pen origin and size, a draw issued from any
\* batch state produces the quad positions, the atlas UVs and the final pen
\* position that the same draw produces on an empty batch.
C19_EmissionIndependentOfBatch ==
    lastOp = "draw" =>
        LET ref == ReferenceDraw(lastFont, lastText, lastPos, lastSize)
        IN /\ Geometry(emitted) = Geometry(ref.emitted)
           /\ pen = ref.pen

\* a two-quad draw away from the origin, on a batch that held a quad, that
\* had to flush while it ran
C19_Witness ==
    /\ lastOp = "draw"
    /\ calls = MaxPrep + 1
    /\ lastPos # Origin
    /\ Len(emitted) = 2
    /\ gpuQuads >= 2
    /\ submissions # << >>
    /\ imageCount = 1

\* ------------------------------------------------------------------------
\* initialize() and the calls after it (SpecInitialize)
\* ------------------------------------------------------------------------
MaxHardwareUnits == 4
MaxCompilerBranches == 4
MaxReadyCalls == 1

Min(a, b) == IF a <= b THEN a ELSE b

\* a compiler, or a lost context, that rejects every test shader
RejectsAll == -1

\* gl.getShaderParameter(shader, gl.COMPILE_STATUS) for the test shader of n
\* branches, on a compiler that accepts exactly the chains of at most
\* compilerLimit branches
CanCompile(n) == n <= compilerLimit

\* A renderer before initialize(): _maxTextures is not assigned yet (0 here),
\* and getMaxShaderComplexity is about to be called with numIfs = maxTexture
InitInitialize ==
    /\ maxImages \in 1 .. MaxCapacity
    /\ maxTextures = 0
    /\ imageCount = 0
    /\ vertexIndex = 0
    /\ textures = << >>
    /\ textureIndex = 0
    /\ textureToIndex = EmptyMap
    /\ images = {}
    /\ sdfGamma = Gamma(DefaultFontSize)
    /\ sdfHalo = 75
    /\ vertexBuffer = << >>
    /\ submissions = << >>
    /\ gpuQuads = 0
    /\ drawnPresent = 0
    /\ calls = 0
    /\ lastOp = "none"
    /\ lastFont = "none"
    /\ gpuDrawCalls = 0
    /\ imageToWidth = EmptyMap
    /\ imageToHeight = EmptyMap
    /\ lastText = << >>
    /\ lastPos = Origin
    /\ lastSize = 0
    /\ emitted = << >>
    /\ pen = Origin
    /\ skippedAfterQuad = FALSE
    /\ hardwareLimit \in 1 .. MaxHardwareUnits
    /\ compilerLimit \in RejectsAll .. MaxCompilerBranches
    /\ numIfs = hardwareLimit
    /\ pcInit = "probe"
    /\ texturePicker = << >>
    /\ FontIdle

batchVars == <<imageCount, vertexIndex, textures, textureIndex, textureToIndex,
               images, sdfGamma, sdfHalo, submissions, gpuQuads, drawnPresent,
               calls, lastFont, gpuDrawCalls, imageToWidth, imageToHeight,
               lastText, lastPos, lastSize, emitted, pen, skippedAfterQuad>>

\* one pass of the do / while of getMaxShaderComplexity.  A failed pass at
\* numIfs = 0 leaves numIfs = (0 / 2) | 0 = 0 and every other variable as it
\* was: the loop running on for ever from there is a behaviour that stutters.
Probe ==
    /\ pcInit = "probe"
    /\ IF CanCompile(numIfs)
       THEN pcInit' = "probed" /\ UNCHANGED numIfs
       ELSE numIfs' = numIfs \div 2 /\ UNCHANGED pcInit
    /\ UNCHANGED <<batchVars, maxImages, maxTextures, vertexBuffer, lastOp,
                   hardwareLimit, compilerLimit, texturePicker, fontVars>>

\* the rest of initialize(): _maxTextures = Math.min(maxTexture, maxComplexity),
\* the shader, the vertex buffer of _maxImages quads
FinishInitialize ==
    /\ pcInit = "probed"
    /\ maxTextures' = Min(hardwareLimit, numIfs)
    /\ texturePicker' = TransformFragmentSource(maxTextures')
    /\ vertexBuffer' = [k \in 1 .. maxImages |-> Undefined]
    /\ lastOp' = "initialize"
    /\ pcInit' = "ready"
    /\ UNCHANGED <<batchVars, maxImages, hardwareLimit, compilerLimit, numIfs, fontVars>>

ReadyDraw(font, text) ==
    /\ pcInit = "ready"
    /\ calls < MaxReadyCalls
    /\ DrawOp(font, text, Origin, DefaultFontSize)

ReadyFlush ==
    /\ pcInit = "ready"
    /\ calls < MaxReadyCalls
    /\ FlushOp

NextInitialize ==
    \/ Probe
    \/ FinishInitialize
    \/ \E font \in FontIds, text \in Texts : ReadyDraw(font, text)
    \/ ReadyFlush

SpecInitialize == InitInitialize /\ [][NextInitialize]_vars

\* initialize() is straight-line code: the loop takes its next pass, and the
\* statements after the loop run once it has ended
SpecInitializeFair ==
    SpecInitialize /\ WF_vars(Probe) /\ WF_vars(FinishInitialize)

\* C18: after initialize, maxTextures = min(hardwareLimit, L) for a compiler
\* that accepts exactly the chains of at most L branches, and no later draw
\* or flush changes it.
C18_MaxTexturesIsMinOfLimits ==
    pcInit = "ready" => maxTextures = Min(hardwareLimit, compilerLimit)

\* no branch of the picker ran: dist keeps 1.0 and no texture is sampled
NoUnit == -1

\* main() of the fragment shader running the picker for a slot index: a
\* branch runs when its condition holds and, for `else if`, no branch before
\* it in the chain ran; the last branch that runs decides dist
RECURSIVE RunPicker(_, _, _, _)
RunPicker(chain, textureIndexValue, taken, sampled) ==
    IF chain = << >> THEN sampled
    ELSE LET branch == Head(chain)
             runs == /\ (branch.keyword = "if" \/ ~taken)
                     /\ 2 * textureIndexValue <= branch.twiceThreshold
         IN RunPicker(Tail(chain), textureIndexValue,
                      IF branch.keyword = "if" THEN runs ELSE taken \/ runs,
                      IF runs THEN branch.unit ELSE sampled)

SampledUnit(chain, textureIndexValue) == RunPicker(chain, textureIndexValue, FALSE, NoUnit)

\* C23: the generated texture-picker chain has exactly maxTextures branches;
\* for every slot index s in [0, maxTextures) the branch that runs is branch
\* s, which samples u_textures[s]; a slot index >= maxTextures matches no
\* branch and samples no texture.
C23_PickerSelectsSlot ==
    pcInit = "ready" =>
        /\ Len(texturePicker) = maxTextures
        /\ \A s \in 0 .. (maxTextures - 1) :
              /\ 2 * s <= texturePicker[s + 1].twiceThreshold
              /\ \A i \in 1 .. s : 2 * s > texturePicker[i].twiceThreshold
              /\ texturePicker[s + 1].unit = s
              /\ SampledUnit(texturePicker, s) = s
        /\ \A s \in maxTextures .. (maxTextures + 2) :
              SampledUnit(texturePicker, s) = NoUnit

\* initialize() built a picker of three branches or more
C23_Witness ==
    /\ pcInit = "ready"
    /\ lastOp = "initialize"
    /\ maxTextures >= 3
    /\ Len(texturePicker) = maxTextures
    /\ SampledUnit(texturePicker, 2) = 2

\* C25: getMaxShaderComplexity terminates for every starting count and
\* every compiler behaviour, including a compiler that rejects every test
\* shader, and the count it returns is at most the starting count and is a
\* count whose test shader compiled.
C25_ProbeTerminates ==
    /\ <>(pcInit # "probe")
    /\ [](pcInit # "probe" => (numIfs <= hardwareLimit /\ CanCompile(numIfs)))

\* ------------------------------------------------------------------------
\* SDFFont constructor: rasterization and atlas packing
\* ------------------------------------------------------------------------
\* "emoji" stands for a code point outside the BMP: one code point of the
\* string iterator, two UTF-16 code units of alphabet.length
CodePoints == {"A", "emoji"}

Units(cp) == IF cp = "emoji" THEN 2 ELSE 1

Alphabets == SeqsUpTo(CodePoints, MaxAlphabet)

\* alphabet.length
RECURSIVE UnitLength(_)
UnitLength(str) ==
    IF str = << >> THEN 0 ELSE Units(Head(str)) + UnitLength(Tail(str))

\* Math.ceil(Math.sqrt(n))
CeilSqrt(n) == CHOOSE k \in 0 .. n : k * k >= n /\ \A j \in 0 .. (k - 1) : j * j < n

\* atlasCanvas.width = atlasCanvas.height = dimension
Dimension == CeilSqrt(UnitLength(alphabet)) * cellSize

Max(a, b) == IF a >= b THEN a ELSE b

\* The distance bytes the rasterizer returns for a glyph (row-major,
\* width * height of them), distinct per glyph and per pixel
GlyphData(cp, w, h) == [k \in 1 .. (w * h) |-> (IF cp = "A" THEN 10 ELSE 100) + k]

\* __tinySdf.draw(codePoint): a bitmap of any size from 1 x 1 (the rasterizer
\* pads every glyph with the buffer, so no side is 0)
GlyphSizes == (1 .. MaxGlyphDim) \X (1 .. MaxGlyphDim)

TinySdfDraw(cp, size) ==
    [data |-> GlyphData(cp, size[1], size[2]), width |-> size[1], height |-> size[2]]

CodePointsOf(str) == {str[i] : i \in 1 .. Len(str)}

TransparentBlack == <<0, 0, 0, 0>>

\* a blank canvas of dimension x dimension pixels
BlankCanvas(dim) == [p \in (0 .. (dim - 1)) \X (0 .. (dim - 1)) |-> TransparentBlack]

\* _makeRGBAImageData(alphaChannel, width, height)
MakeRGBAImageData(alphaChannel, width, height) ==
    [data |-> [i \in 1 .. Len(alphaChannel) |->
                  <<alphaChannel[i], alphaChannel[i], alphaChannel[i], 255>>],
     width |-> width, height |-> height]

\* atlasCtx.putImageData(imageData, dx, dy): pixels outside the canvas are clipped
PutImageData(canvas, imageData, dx, dy) ==
    [p \in DOMAIN canvas |->
        IF /\ dx <= p[1] /\ p[1] < dx + imageData.width
           /\ dy <= p[2] /\ p[2] < dy + imageData.height
        THEN imageData.data[(p[2] - dy) * imageData.width + (p[1] - dx) + 1]
        ELSE canvas[p]]

\* Reading one pixel of the canvas (getImageData): transparent black outside it
ReadPixel(canvas, px, py) ==
    IF <<px, py>> \in DOMAIN canvas THEN canvas[<<px, py>>] ELSE TransparentBlack

MapSet(m, k, v) == [c \in (DOMAIN m) \cup {k} |-> IF c = k THEN v ELSE m[c]]

Done == nextCodePoint > Len(alphabet)

RendererIdle ==
    /\ maxImages = 1 /\ maxTextures = 1 /\ imageCount = 0 /\ vertexIndex = 0
    /\ textures = << >> /\ textureIndex = 0 /\ textureToIndex = EmptyMap
    /\ images = {} /\ sdfGamma = Gamma(DefaultFontSize) /\ sdfHalo = 75
    /\ vertexBuffer = << >> /\ submissions = << >> /\ gpuQuads = 0
    /\ drawnPresent = 0 /\ calls = 0 /\ lastOp = "none"
    /\ lastFont = "none" /\ gpuDrawCalls = 0
    /\ imageToWidth = EmptyMap /\ imageToHeight = EmptyMap
    /\ lastText = << >> /\ lastPos = Origin /\ lastSize = 0
    /\ emitted = << >> /\ pen = Origin /\ skippedAfterQuad = FALSE
    /\ hardwareLimit = 1 /\ compilerLimit = 1 /\ numIfs = 1 /\ pcInit = "ready"
    /\ texturePicker = TransformFragmentSource(1)

\* new SDFFont(options), up to the sizing of the canvas
InitAtlas ==
    /\ RendererIdle
    /\ alphabet \in Alphabets
    /\ cellSize \in 1 .. MaxCellSize
    /\ glyphs = EmptyMap
    /\ glyphAtlasLocation = EmptyMap
    /\ atlas = BlankCanvas(Dimension)
    /\ nextCodePoint = 1
    /\ x = 0 /\ y = 0 /\ currentSize = 0 /\ maxHeight = 0
    /\ pcFont = "rasterize"
    /\ ownFontSize = 0 /\ buffer = 0 /\ radius = 0
    /\ placements = << >>

\* for (const codePoint of alphabet) this.glyphs.set(codePoint, this.__tinySdf.draw(codePoint))
Rasterize ==
    /\ pcFont = "rasterize"
    /\ \E sizes \in [CodePointsOf(alphabet) -> GlyphSizes] :
          glyphs' = [cp \in CodePointsOf(alphabet) |-> TinySdfDraw(cp, sizes[cp])]
    /\ pcFont' = "begin"
    /\ UNCHANGED <<rendererVars, sizingVars, placements, alphabet, cellSize, glyphAtlasLocation, atlas,
                   nextCodePoint, x, y, currentSize, maxHeight>>

\* codePoints.next(); if (nextCodePoint?.done) return; currentSize = 0; maxHeight = 0; y = 0
BeginPacking ==
    /\ pcFont = "begin"
    /\ IF Done
       THEN pcFont' = "returned" /\ UNCHANGED <<y, currentSize, maxHeight>>
       ELSE /\ pcFont' = "outer"
            /\ y' = 0
            /\ currentSize' = 0
            /\ maxHeight' = 0
    /\ UNCHANGED <<rendererVars, sizingVars, placements, alphabet, cellSize, glyphs, glyphAtlasLocation,
                   atlas, nextCodePoint, x>>

\* the outer loop starting a row without resetting maxHeight
OuterLoopNoReset ==
    /\ pcFont = "outer"
    /\ IF y + maxHeight <= Dimension /\ ~Done
       THEN /\ x' = 0
            /\ pcFont' = "inner"
            /\ UNCHANGED maxHeight
       ELSE /\ pcFont' = "returned"
            /\ UNCHANGED <<maxHeight, x>>
    /\ UNCHANGED <<rendererVars, sizingVars, placements, alphabet, cellSize, glyphs,
                   glyphAtlasLocation, atlas, nextCodePoint, y, currentSize>>

\* the outer loop's test: y + maxHeight <= height && !done; then maxHeight = 0, x = 0
OuterLoop ==
    /\ pcFont = "outer"
    /\ IF y + maxHeight <= Dimension /\ ~Done
       THEN /\ maxHeight' = 0
            /\ x' = 0
            /\ pcFont' = "inner"
       ELSE /\ pcFont' = "returned"
            /\ UNCHANGED <<maxHeight, x>>
    /\ UNCHANGED <<rendererVars, sizingVars, placements, alphabet, cellSize, glyphs, glyphAtlasLocation,
                   atlas, nextCodePoint, y, currentSize>>

\* this.atlasCtx.putImageData(image, x, y) for the glyph of codePoint
Placement(codePoint, px, py, glyph) ==
    [codePoint |-> codePoint, x |-> px, y |-> py,
     width |-> glyph.width, height |-> glyph.height]

\* the inner loop advancing x by the width of the glyph placed before this one
PlaceGlyphStaleAdvance ==
    /\ pcFont = "inner"
    /\ x + currentSize <= Dimension /\ ~Done
    /\ LET codePoint == alphabet[nextCodePoint]
           glyph == glyphs[codePoint]
       IN /\ currentSize' = glyph.width
          /\ maxHeight' = Max(maxHeight, glyph.height)
          /\ atlas' = PutImageData(atlas,
                          MakeRGBAImageData(glyph.data, glyph.width, glyph.height), x, y)
          /\ glyphAtlasLocation' = MapSet(glyphAtlasLocation, codePoint, [x |-> x, y |-> y])
          /\ nextCodePoint' = nextCodePoint + 1
          /\ x' = x + currentSize
          /\ placements' = Append(placements, Placement(codePoint, x, y, glyph))
    /\ UNCHANGED <<rendererVars, sizingVars, alphabet, cellSize, glyphs, y, pcFont>>

\* the inner loop's test x + currentSize <= width && !done, its body and x += currentSize
PlaceGlyph ==
    /\ pcFont = "inner"
    /\ x + currentSize <= Dimension /\ ~Done
    /\ LET codePoint == alphabet[nextCodePoint]
           glyph == glyphs[codePoint]
       IN /\ currentSize' = glyph.width
          /\ maxHeight' = Max(maxHeight, glyph.height)
          /\ atlas' = PutImageData(atlas,
                          MakeRGBAImageData(glyph.data, glyph.width, glyph.height), x, y)
          /\ glyphAtlasLocation' = MapSet(glyphAtlasLocation, codePoint, [x |-> x, y |-> y])
          /\ nextCodePoint' = nextCodePoint + 1
          /\ x' = x + glyph.width
          /\ placements' = Append(placements, Placement(codePoint, x, y, glyph))
    /\ UNCHANGED <<rendererVars, sizingVars, alphabet, cellSize, glyphs, y, pcFont>>

\* the inner loop ends; y += maxHeight
EndRow ==
    /\ pcFont = "inner"
    /\ ~(x + currentSize <= Dimension /\ ~Done)
    /\ y' = y + maxHeight
    /\ pcFont' = "outer"
    /\ UNCHANGED <<rendererVars, sizingVars, placements, alphabet, cellSize, glyphs, glyphAtlasLocation,
                   atlas, nextCodePoint, x, currentSize, maxHeight>>

NextAtlas ==
    \/ Rasterize
    \/ BeginPacking
    \/ OuterLoop
    \/ PlaceGlyph
    \/ EndRow

SpecAtlas == InitAtlas /\ [][NextAtlas]_vars

\* the constructor is straight-line code: it always takes its next step
SpecAtlasFair == SpecAtlas /\ WF_vars(NextAtlas)

\* ------------------------------------------------------------------------
\* Properties of the SDFFont constructor (checked under SpecAtlas)
\* ------------------------------------------------------------------------
\* The pixels of the rectangle recorded for a placed code point:
\* [x, x + width) x [y, y + height)
GlyphRect(cp) ==
    (glyphAtlasLocation[cp].x .. (glyphAtlasLocation[cp].x + glyphs[cp].width - 1))
        \X (glyphAtlasLocation[cp].y .. (glyphAtlasLocation[cp].y + glyphs[cp].height - 1))

\* C6: after construction, the atlas rectangles of any two distinct placed
\* code points are disjoint.
C6_PlacedRectanglesDisjoint ==
    pcFont = "returned" =>
        \A c1 \in DOMAIN glyphAtlasLocation, c2 \in DOMAIN glyphAtlasLocation :
            c1 # c2 => GlyphRect(c1) \cap GlyphRect(c2) = {}

\* two glyphs of different widths placed in one row
C6_Witness ==
    /\ pcFont = "returned"
    /\ DOMAIN glyphAtlasLocation = {"A", "emoji"}
    /\ glyphAtlasLocation["A"].y = glyphAtlasLocation["emoji"].y
    /\ glyphs["A"].width # glyphs["emoji"].width

\* C7: every glyph recorded in the atlas-location table lies fully inside the
\* atlas canvas: x + width <= dimension and y + height <= dimension.
C7_GlyphsInsideCanvas ==
    \A cp \in DOMAIN glyphAtlasLocation :
        /\ glyphAtlasLocation[cp].x + glyphs[cp].width <= Dimension
        /\ glyphAtlasLocation[cp].y + glyphs[cp].height <= Dimension

\* C8: construction never completes with glyphs of the alphabet left
\* unplaced (it fails with AtlasOverflow instead of returning).
C8_NeverReturnsWithUnplacedGlyphs ==
    pcFont = "returned" => Done

\* C9: after construction every code point of the alphabet has an entry in
\* the glyph table and an entry in the atlas-location table.
C9_AlphabetInBothTables ==
    pcFont = "returned" =>
        \A i \in 1 .. Len(alphabet) :
            /\ alphabet[i] \in DOMAIN glyphs
            /\ alphabet[i] \in DOMAIN glyphAtlasLocation

\* C10: after construction, reading the atlas over a code point's recorded
\* rectangle yields R = G = B = the glyph's distance byte and A = 255 at
\* every pixel.
C10_AtlasReproducesBitmap ==
    pcFont = "returned" =>
        \A cp \in DOMAIN glyphAtlasLocation :
            \A i \in 0 .. (glyphs[cp].width - 1), j \in 0 .. (glyphs[cp].height - 1) :
                LET d == glyphs[cp].data[j * glyphs[cp].width + i + 1]
                IN ReadPixel(atlas, glyphAtlasLocation[cp].x + i, glyphAtlasLocation[cp].y + j)
                       = <<d, d, d, 255>>

\* C20: shelf packing follows input order with a running cursor: the first
\* glyph is placed at (0, 0); within a row each glyph's x is the sum of the
\* bitmap widths of the glyphs placed before it in that row; a new row
\* starts at x = 0 and at y = previous row's y + the maximum bitmap height
\* seen in that row, with the row height reset to 0.
RowOf(py) == {i \in 1 .. Len(placements) : placements[i].y = py}

RECURSIVE WidthsBefore(_, _)
WidthsBefore(i, py) ==
    IF i = 0 THEN 0
    ELSE WidthsBefore(i - 1, py)
         + (IF placements[i].y = py THEN placements[i].width ELSE 0)

RowHeight(py) ==
    IF RowOf(py) = {} THEN 0
    ELSE CHOOSE h \in {placements[i].height : i \in RowOf(py)} :
            \A i \in RowOf(py) : placements[i].height <= h

C20_ShelfPackingCursor ==
    LET n == Len(placements)
    IN /\ n = (IF nextCodePoint = 0 THEN 0 ELSE nextCodePoint - 1)
       /\ \A i \in 1 .. n : placements[i].codePoint = alphabet[i]
       /\ n >= 1 => (placements[1].x = 0 /\ placements[1].y = 0)
       /\ \A i \in 1 .. n : placements[i].x = WidthsBefore(i - 1, placements[i].y)
       /\ \A i \in 2 .. n :
             \/ placements[i].y = placements[i - 1].y
             \/ /\ placements[i].x = 0
                /\ placements[i].y =
                       placements[i - 1].y + RowHeight(placements[i - 1].y)
       /\ pcFont = "inner" => maxHeight = RowHeight(y)

\* three glyphs: a first row of one glyph, a second row of two
C20_Witness ==
    /\ Len(placements) = 3
    /\ placements[2].x = 0
    /\ placements[2].y = placements[1].height
    /\ placements[3].y = placements[2].y
    /\ placements[3].x = placements[2].width

\* ------------------------------------------------------------------------
\* The sizing of the SDFFont constructor (SpecSizing)
\* ------------------------------------------------------------------------
MaxFontSize == 16

\* the initializer of SDFFont._fontSize
InitialFontSize == 16

\* options.fontSize: a size, or not given
FontSizeOptions ==
    [given : {TRUE}, fontSize : 1 .. MaxFontSize] \cup {[given |-> FALSE, fontSize |-> 0]}

\* the fields before the constructor body runs
InitSizing ==
    /\ RendererIdle
    /\ alphabet \in Alphabets
    /\ cellSize = 0
    /\ glyphs = EmptyMap
    /\ glyphAtlasLocation = EmptyMap
    /\ atlas = EmptyMap
    /\ nextCodePoint = 0
    /\ x = 0 /\ y = 0 /\ currentSize = 0 /\ maxHeight = 0
    /\ pcFont = "construct"
    /\ ownFontSize = InitialFontSize /\ buffer = 0 /\ radius = 0
    /\ placements = << >>

\* new SDFFont(options) up to the sizing of the canvas: _fontSize from the
\* options; buffer, radius and size from the `fontSize` in scope, which is
\* the module-scope constant.  The canvas then has Dimension pixels a side;
\* its pixels are left out here.
Construct(optFontSize) ==
    /\ pcFont = "construct"
    /\ ownFontSize' = (IF optFontSize.given THEN optFontSize.fontSize ELSE ownFontSize)
    /\ buffer' = CeilDiv(ModuleFontSize, 8)
    /\ radius' = CeilDiv(ModuleFontSize, 3)
    /\ cellSize' = ModuleFontSize + CeilDiv(ModuleFontSize, 8) * 2
    /\ pcFont' = "sized"
    /\ UNCHANGED <<rendererVars, placements, alphabet, glyphs, glyphAtlasLocation,
                   atlas, nextCodePoint, x, y, currentSize, maxHeight>>

NextSizing == \E optFontSize \in FontSizeOptions : Construct(optFontSize)

SpecSizing == InitSizing /\ [][NextSizing]_vars

\* C17: the sizing parameters are derived from the font's own configured
\* font size and alphabet: buffer = ceil(fontSize/8), radius =
\* ceil(fontSize/3), cell size = fontSize + 2*buffer, atlas side =
\* ceil(sqrt(alphabetSize)) * cell size, fontSize being the value of the
\* font's fontSize getter.
C17_SizingFromOwnFontSize ==
    pcFont = "sized" =>
        /\ buffer = CeilDiv(ownFontSize, 8)
        /\ radius = CeilDiv(ownFontSize, 3)
        /\ cellSize = ownFontSize + 2 * buffer
        /\ Dimension = CeilSqrt(UnitLength(alphabet)) * cellSize

\* C24: atlas construction always completes: for every alphabet and every
\* combination of glyph bitmap widths and heights returned by the
\* rasterizer, the packing loop of the SDFFont constructor terminates.
C24_PackingTerminates == <>(pcFont = "returned")

====
